---------------------------- MODULE Spec2Model ----------------------------
(***************************************************************************)
(* Model of myasm.py: the line encoder assemble_line, the program          *)
(* assembler assemble_file and the serial transmitter send_to_serial of    *)
(* the 16-bit ISA  [Op:2][Mod:6][Src:4][Dst:4].                            *)
(*                                                                         *)
(* A source line is a sequence of one-character strings, so that strip,    *)
(* upper, replace, split, slicing and int() are computed character by      *)
(* character, as Python computes them.                                     *)
(***************************************************************************)
EXTENDS Integers, Sequences, FiniteSets, TLC

VARIABLES
    line,          \* SpecLine: the argument of one assemble_line call
    result,        \* SpecLine: what that call returned or raised
    file,          \* the lines of the source file, in order
    delay,         \* send_to_serial's parameter delay, in milliseconds
    pc,            \* position of the single thread of control
    line_num,      \* assemble_file: number of the last line enumerated
    instructions,  \* assemble_file: the list being built; then the Program
    errLine,       \* line number printed by "Error on line N" (0: none)
    idx,           \* send_to_serial: index i of the for loop
    ser,           \* the serial port: "none", "open" or "closed"
    events         \* what the port driver and time.sleep observed, in order

vars == <<line, result, file, delay, pc, line_num, instructions, errLine,
          idx, ser, events>>

---------------------------------------------------------------------------
(* Bounds of the model *)

\* operand values 0..MaxOperand are enumerated for every operand position
MaxOperand == 17
\* a source file has at most MaxLines lines
MaxLines == 3

---------------------------------------------------------------------------
(* Python's str and int primitives *)

Whitespace == {" ", "\t", "\n"}

LowerLetters == <<"a","b","c","d","e","f","g","h","i","j","k","l","m",
                  "n","o","p","q","r","s","t","u","v","w","x","y","z">>
UpperLetters == <<"A","B","C","D","E","F","G","H","I","J","K","L","M",
                  "N","O","P","Q","R","S","T","U","V","W","X","Y","Z">>

UpperChar(c) ==
    IF \E i \in 1..26 : LowerLetters[i] = c
    THEN UpperLetters[CHOOSE i \in 1..26 : LowerLetters[i] = c]
    ELSE c

\* str.upper()
upper(s) == [i \in 1..Len(s) |-> UpperChar(s[i])]

RECURSIVE lstrip(_)
lstrip(s) ==
    IF s = <<>> THEN s
    ELSE IF Head(s) \in Whitespace THEN lstrip(Tail(s)) ELSE s

RECURSIVE rstrip(_)
rstrip(s) ==
    IF s = <<>> THEN s
    ELSE IF s[Len(s)] \in Whitespace THEN rstrip(SubSeq(s, 1, Len(s) - 1))
    ELSE s

\* str.strip()
strip(s) == rstrip(lstrip(s))

\* str.startswith(c) for a one-character prefix
startswith(s, c) == Len(s) >= 1 /\ s[1] = c

\* str.replace(old, new) for one-character old and new
replace(s, old, new) == [i \in 1..Len(s) |-> IF s[i] = old THEN new ELSE s[i]]

RECURSIVE SplitFrom(_, _, _)
SplitFrom(s, cur, acc) ==
    IF s = <<>> THEN (IF cur = <<>> THEN acc ELSE Append(acc, cur))
    ELSE IF Head(s) \in Whitespace
         THEN SplitFrom(Tail(s), <<>>, IF cur = <<>> THEN acc ELSE Append(acc, cur))
         ELSE SplitFrom(Tail(s), Append(cur, Head(s)), acc)

\* str.split(): the maximal runs of non-whitespace characters
split(s) == SplitFrom(s, <<>>, <<>>)

\* s[1:]
Slice1(s) == SubSeq(s, 2, Len(s))

HexDigits == <<"0","1","2","3","4","5","6","7","8","9","A","B","C","D","E","F">>

\* value of a digit character, or 16 when it is no digit of any base used
DigitVal(c) ==
    LET u == UpperChar(c) IN
    IF \E i \in 1..16 : HexDigits[i] = u
    THEN (CHOOSE i \in 1..16 : HexDigits[i] = u) - 1
    ELSE 16

RECURSIVE DigitsFrom(_, _, _, _)
DigitsFrom(s, base, acc, afterUnderscore) ==
    IF s = <<>> THEN (IF afterUnderscore THEN -1 ELSE acc)
    ELSE IF Head(s) = "_"
         THEN (IF afterUnderscore THEN -1 ELSE DigitsFrom(Tail(s), base, acc, TRUE))
         ELSE IF DigitVal(Head(s)) < base
              THEN DigitsFrom(Tail(s), base, acc * base + DigitVal(Head(s)), FALSE)
              ELSE -1

\* The digits of an integer literal: digits of the base with single
\* underscores between them; -1 when s is no such literal.
ParseDigits(s, base, underscoreFirst) ==
    IF s = <<>> THEN -1
    ELSE IF Head(s) = "_" /\ ~underscoreFirst THEN -1
    ELSE DigitsFrom(s, base, 0, FALSE)

NoInt == [ok |-> FALSE, val |-> 0]
Signed(neg, v) == IF v < 0 THEN NoInt ELSE [ok |-> TRUE, val |-> IF neg THEN 0 - v ELSE v]

\* int(s): surrounding whitespace, an optional sign, decimal digits
int10(s) ==
    LET t    == strip(s)
        sgn  == t # <<>> /\ Head(t) \in {"+", "-"}
        body == IF sgn THEN Tail(t) ELSE t
    IN Signed(sgn /\ Head(t) = "-", ParseDigits(body, 10, FALSE))

\* int(s, 0): as int(s), with the base taken from a 0x, 0o or 0b prefix;
\* without a prefix a nonzero number must not start with 0
int0(s) ==
    LET t    == strip(s)
        sgn  == t # <<>> /\ Head(t) \in {"+", "-"}
        neg  == sgn /\ Head(t) = "-"
        body == IF sgn THEN Tail(t) ELSE t
        pfx  == Len(body) >= 2 /\ body[1] = "0" /\ UpperChar(body[2]) \in {"X", "O", "B"}
        base == IF ~pfx THEN 10
                ELSE IF UpperChar(body[2]) = "X" THEN 16
                ELSE IF UpperChar(body[2]) = "O" THEN 8 ELSE 2
        v    == IF pfx THEN ParseDigits(SubSeq(body, 3, Len(body)), base, TRUE)
                ELSE ParseDigits(body, 10, FALSE)
    IN IF ~pfx /\ v > 0 /\ body[1] = "0" THEN NoInt ELSE Signed(neg, v)

---------------------------------------------------------------------------
(* Python's unbounded two's-complement integer operators *)

RECURSIVE Pow2(_)
Pow2(n) == IF n = 0 THEN 1 ELSE 2 * Pow2(n - 1)

\* floor division and its non-negative remainder
FloorDiv(a, b) == IF a >= 0 THEN a \div b ELSE 0 - ((b - 1 - a) \div b)
FloorMod(a, b) == a - b * FloorDiv(a, b)

\* x << n
Shl(x, n) == x * Pow2(n)
\* x >> n
Shr(x, n) == FloorDiv(x, Pow2(n))

RECURSIVE BitOr(_, _)
\* a | b
BitOr(a, b) ==
    IF a = 0 THEN b
    ELSE IF b = 0 THEN a
    ELSE IF a = -1 \/ b = -1 THEN -1
    ELSE 2 * BitOr(FloorDiv(a, 2), FloorDiv(b, 2))
         + (IF FloorMod(a, 2) = 1 \/ FloorMod(b, 2) = 1 THEN 1 ELSE 0)

\* x & 0xFF
And255(x) == FloorMod(x, 256)

---------------------------------------------------------------------------
(* assemble_line *)

\* what a call of assemble_line does: return a word, return None, or raise
Word(n)    == [kind |-> "word",  val |-> n, exc |-> ""]
None       == [kind |-> "none",  val |-> 0, exc |-> ""]
Raise(e)   == [kind |-> "raise", val |-> 0, exc |-> e]
NotCalled  == [kind |-> "pending", val |-> 0, exc |-> ""]

\* line = line.strip().upper()
Normalize(l) == upper(strip(l))

\* if not line or line.startswith('#') or line.startswith(';')
IsSkipped(n) == n = <<>> \/ startswith(n, "#") \/ startswith(n, ";")

\* parts = line.replace(',', ' ').split()
Tokenize(n) == split(replace(n, ",", " "))

\* a range test that is off by one: 16 passes
TooLargeOffByOne(v) == v > 16

\* the test  dst > 15 / src > 15 / imm > 15 / reg > 15
TooLarge(v) == v > 15

\* a packing that puts the first operand in src and the second in dst
PackSwapped(opcode, mod, src, dst) ==
    BitOr(BitOr(BitOr(Shl(opcode, 14), Shl(mod, 8)), Shl(dst, 4)), src)

\* instruction = (opcode << 14) | (mod << 8) | (src << 4) | dst
Pack(opcode, mod, src, dst) ==
    BitOr(BitOr(BitOr(Shl(opcode, 14), Shl(mod, 8)), Shl(src, 4)), dst)

\* the MOV, ADD and XOR branches: two register operands.  parts is
\* 1-based here, so Python's parts[1] is parts[2].
RegReg(parts, opcode, mod) ==
    IF Len(parts) < 3 THEN Raise("IndexError")
    ELSE LET dst == int10(Slice1(parts[2]))
             src == int10(Slice1(parts[3]))
         IN IF ~dst.ok \/ ~src.ok THEN Raise("ValueError")
            ELSE IF TooLarge(dst.val) \/ TooLarge(src.val) THEN Raise("ValueError")
            ELSE Word(Pack(opcode, mod, src.val, dst.val))

\* the ADDI branch: a register and an immediate parsed by int(.., 0)
RegImm(parts, opcode, mod) ==
    IF Len(parts) < 2 THEN Raise("IndexError")
    ELSE LET dst == int10(Slice1(parts[2])) IN
         IF ~dst.ok THEN Raise("ValueError")
         ELSE IF Len(parts) < 3 THEN Raise("IndexError")
         ELSE LET imm == int0(parts[3]) IN
              IF ~imm.ok THEN Raise("ValueError")
              ELSE IF TooLarge(dst.val) \/ TooLarge(imm.val) THEN Raise("ValueError")
              ELSE Word(Pack(opcode, mod, imm.val, dst.val))

\* the PUSH and POP branches: one register, src field unused
OneReg(parts, opcode, mod) ==
    IF Len(parts) < 2 THEN Raise("IndexError")
    ELSE LET reg == int10(Slice1(parts[2])) IN
         IF ~reg.ok THEN Raise("ValueError")
         ELSE IF TooLarge(reg.val) THEN Raise("ValueError")
         ELSE Word(Pack(opcode, mod, 0, reg.val))

MOV  == <<"M","O","V">>
ADD  == <<"A","D","D">>
XOR  == <<"X","O","R">>
ADDI == <<"A","D","D","I">>
PUSH == <<"P","U","S","H">>
POP  == <<"P","O","P">>

\* the if/elif chain on op = parts[0]
Dispatch(parts) ==
    IF parts = <<>> THEN Raise("IndexError")
    ELSE LET op == parts[1] IN
         IF      op = MOV  THEN RegReg(parts, 0, 0)
         ELSE IF op = ADD  THEN RegReg(parts, 0, 1)
         ELSE IF op = XOR  THEN RegReg(parts, 0, 5)
         ELSE IF op = ADDI THEN RegImm(parts, 0, 16)
         ELSE IF op = PUSH THEN OneReg(parts, 1, 2)
         ELSE IF op = POP  THEN OneReg(parts, 1, 3)
         ELSE Raise("ValueError")

assemble_line(l) ==
    LET n == Normalize(l) IN
    IF IsSkipped(n) THEN None ELSE Dispatch(Tokenize(n))

---------------------------------------------------------------------------
(* Source lines: the inputs the model enumerates *)

\* decimal digits of n, 0 <= n <= 99
Dec(n) ==
    IF n < 10 THEN <<HexDigits[n + 1]>>
    ELSE <<HexDigits[(n \div 10) + 1], HexDigits[(n % 10) + 1]>>

Operands == 0..MaxOperand

RECURSIVE Join(_, _)
\* the tokens of toks, with sep between them
Join(toks, sep) ==
    IF toks = <<>> THEN <<>>
    ELSE IF Len(toks) = 1 THEN toks[1]
    ELSE toks[1] \o sep \o Join(Tail(toks), sep)

\* "<op> r<a>, r<b>\n"
RegRegLine(op, a, b) ==
    op \o <<" ", "r">> \o Dec(a) \o <<",", " ", "r">> \o Dec(b) \o <<"\n">>
\* "<op> r<a>, <b>\n"
RegImmLine(op, a, b) ==
    op \o <<" ", "r">> \o Dec(a) \o <<",", " ">> \o Dec(b) \o <<"\n">>
\* "<op> r<a>\n"
OneRegLine(op, a) == op \o <<" ", "r">> \o Dec(a) \o <<"\n">>

TwoRegOps == {MOV, ADD, XOR}
OneRegOps == {PUSH, POP}
Mnemonics == TwoRegOps \cup {ADDI} \cup OneRegOps

\* lines in the documented form, every operand value up to MaxOperand
PlainLines ==
    {RegRegLine(op, a, b) : op \in TwoRegOps, a \in Operands, b \in Operands}
    \cup {RegImmLine(ADDI, a, b) : a \in Operands, b \in Operands}
    \cup {OneRegLine(op, a) : op \in OneRegOps, a \in Operands}

\* operand tokens in other lexical forms
OddTokens ==
    { <<"r","1">>, <<"R","2">>, <<"x","3">>, <<"1","2">>, <<"r","-","1">>,
      <<"r","x">>, <<"r">>, <<"r","1","_","0">>, <<"r","+","4">>,
      <<"0","x","F">>, <<"0","x","1","0">>, <<"-","1">>, <<"0","b","1","1">>,
      <<"0","1","2">>, <<"7">> }
FewTokens == { <<"r","1">>, <<"r","2">>, <<"x","3">> }
NOP == <<"N","O","P">>
LowerMov == <<"m","o","v">>

\* lines with zero to three operand tokens in any of these forms
OddLines ==
    LET ops == Mnemonics \cup {NOP, LowerMov} IN
    ops
    \cup {Join(<<op, t>>, <<" ">>) : op \in ops, t \in OddTokens}
    \cup {op \o <<" ">> \o Join(<<t, u>>, <<",">>) : op \in ops, t \in OddTokens, u \in OddTokens}
    \cup {op \o <<" ">> \o Join(<<t, u, v>>, <<",", " ">>) :
             op \in Mnemonics, t \in FewTokens, u \in FewTokens, v \in FewTokens}

\* blank lines, comments, and separators only
SkipLines ==
    { <<>>, <<"\n">>, <<" ", " ", "\n">>, <<"#">>, <<";">>,
      <<"#", " ">> \o RegRegLine(MOV, 1, 2),
      <<" ", "\t", ";">> \o OneRegLine(PUSH, 1),
      <<",">>, <<" ", ",", " ", "\n">> }

Lines == PlainLines \cup OddLines \cup SkipLines

---------------------------------------------------------------------------
(* One call of assemble_line on one line *)

InitLine ==
    /\ line \in Lines
    /\ result = NotCalled
    /\ file = <<>>
    /\ delay = 0
    /\ pc = "call"
    /\ line_num = 0
    /\ instructions = <<>>
    /\ errLine = 0
    /\ idx = 0
    /\ ser = "none"
    /\ events = <<>>

CallAssembleLine ==
    /\ pc = "call"
    /\ result' = assemble_line(line)
    /\ pc' = "returned"
    /\ UNCHANGED <<line, file, delay, line_num, instructions, errLine, idx, ser, events>>

NextLine == CallAssembleLine

SpecLine == InitLine /\ [][NextLine]_vars

---------------------------------------------------------------------------
(* Properties of assemble_line, checked under SpecLine *)

Returned == pc = "returned"

\* the constant fields of each mnemonic: [Op:2][Mod:6]
OpcodeOf(op) == IF op \in OneRegOps THEN 1 ELSE 0
ModOf(op) ==
    IF op = MOV THEN 0 ELSE IF op = ADD THEN 1 ELSE IF op = XOR THEN 5
    ELSE IF op = ADDI THEN 16 ELSE IF op = PUSH THEN 2 ELSE 3

\* the word with the given field values and no other bit set
Fields(op, src, dst) == OpcodeOf(op) * 16384 + ModOf(op) * 256 + src * 16 + dst

InField == 0..15

\* C1: for every mnemonic and all operand values 0..15, assemble_line
\* returns the word (opcode << 14) | (mod << 8) | (src << 4) | dst, the
\* first operand in dst, the second (or the immediate) in src, src = 0 for
\* PUSH and POP; MOV r1,r2 is 0x0021 = 33 and ADD r2,r1 is 0x0112 = 274.
C1_ExactEncoding ==
    (Returned /\ line \in PlainLines) =>
        /\ \A op \in TwoRegOps, a \in InField, b \in InField :
              line = RegRegLine(op, a, b) => result = Word(Fields(op, b, a))
        /\ \A a \in InField, b \in InField :
              line = RegImmLine(ADDI, a, b) => result = Word(Fields(ADDI, b, a))
        /\ \A op \in OneRegOps, a \in InField :
              line = OneRegLine(op, a) => result = Word(Fields(op, 0, a))
        /\ line = RegRegLine(MOV, 1, 2) => result = Word(33)
        /\ line = RegRegLine(ADD, 2, 1) => result = Word(274)

C1_Witness ==
    /\ Returned
    /\ line = RegImmLine(ADDI, 15, 15)
    /\ result = Word(4351)

AddiHex16 == ADDI \o <<" ", "r", "1", ",", "0", "x", "1", "0">>

\* C2: an operand value of 16 or more, in any operand position of any
\* mnemonic, makes assemble_line raise; no word is returned.
C2_OutOfRangeRaises ==
    Returned =>
        /\ line \in PlainLines =>
            /\ \A op \in TwoRegOps \cup {ADDI}, a \in Operands, b \in Operands :
                  ( /\ a > 15 \/ b > 15
                    /\ line \in {RegRegLine(op, a, b), RegImmLine(op, a, b)} )
                  => result.kind = "raise"
            /\ \A op \in OneRegOps, a \in Operands :
                  (a > 15 /\ line = OneRegLine(op, a)) => result.kind = "raise"
        /\ line = AddiHex16 => result.kind = "raise"

C2_Witness ==
    /\ Returned
    /\ line = RegRegLine(XOR, 3, 16)
    /\ result = Raise("ValueError")

\* number of operands each mnemonic takes
OperandCount(op) == IF op \in OneRegOps THEN 1 ELSE 2

\* C7: for a known mnemonic a word is produced only if the number of
\* operand tokens equals the mnemonic's operand count.
C7_ArityChecked ==
    LET parts == Tokenize(Normalize(line)) IN
    (Returned /\ result.kind = "word") =>
        Len(parts) - 1 = OperandCount(parts[1])

DecimalDigits == {"0","1","2","3","4","5","6","7","8","9"}

\* a token of the form R<N>, N a non-negative integer in decimal digits
IsRegisterToken(t) ==
    /\ Len(t) >= 2
    /\ t[1] = "R"
    /\ \A i \in 2..Len(t) : t[i] \in DecimalDigits

\* the positions of parts that hold register operands
RegisterPositions(parts) ==
    IF parts[1] \in TwoRegOps THEN {2, 3} ELSE {2}

\* C8: a word is produced only if every register operand has the form
\* r<N> (prefix R, then a non-negative integer).
C8_RegisterFormChecked ==
    LET parts == Tokenize(Normalize(line)) IN
    (Returned /\ result.kind = "word") =>
        \A i \in RegisterPositions(parts) : IsRegisterToken(parts[i])

\* C10: every word assemble_line returns is an unsigned 16-bit value.
C10_WordIsUnsigned16 ==
    (Returned /\ result.kind = "word") => result.val \in 0..65535

---------------------------------------------------------------------------
(* The whole program: assemble_file, then send_to_serial *)

\* delay=0.1 of send_to_serial's signature, in milliseconds
DefaultDelay == 100
\* time.sleep(0.1) after opening the port, in milliseconds
StabilizeDelay == 100

\* __main__ passes no delay, so the default applies; another value stands
\* for a direct call of send_to_serial with its delay argument set
Delays == {DefaultDelay, 20}

\* the lines a source file is made of
FileLines ==
    { RegRegLine(MOV, 1, 2),
      <<"a","d","d"," ","R","2",",","r","1","\n">>,
      OneRegLine(PUSH, 15),
      <<"\n">>,
      <<"#"," ">> \o RegRegLine(XOR, 3, 4),
      <<" ",";","\n">>,
      NOP \o <<"\n">>,
      RegImmLine(ADDI, 3, 16),
      <<"p","o","p"," ","r","-","1","\n">> }

Files == UNION {[1..n -> FileLines] : n \in 0..MaxLines}

Init ==
    /\ line = <<>>
    /\ result = NotCalled
    /\ file \in Files
    /\ delay \in Delays
    /\ pc = "assemble"
    /\ line_num = 0
    /\ instructions = <<>>
    /\ errLine = 0
    /\ idx = 0
    /\ ser = "none"
    /\ events = <<>>

Event(op, arg) == [op |-> op, arg |-> arg]

\* an iteration that appends whatever assemble_line returned, None included
AssembleNextKeepsNone ==
    /\ pc = "assemble"
    /\ line_num < Len(file)
    /\ line_num' = line_num + 1
    /\ LET r == assemble_line(file[line_num + 1]) IN
       /\ instructions' = IF r.kind \in {"word", "none"} THEN Append(instructions, r.val)
                          ELSE instructions
       /\ errLine' = IF r.kind = "raise" THEN line_num + 1 ELSE errLine
       /\ pc' = IF r.kind = "raise" THEN "exit" ELSE "assemble"
    /\ UNCHANGED <<line, result, file, delay, idx, ser, events>>

\* an iteration that reports the error and goes on to the next line
AssembleNextContinues ==
    /\ pc = "assemble"
    /\ line_num < Len(file)
    /\ line_num' = line_num + 1
    /\ LET r == assemble_line(file[line_num + 1]) IN
       /\ instructions' = IF r.kind = "word" THEN Append(instructions, r.val)
                          ELSE instructions
       /\ errLine' = IF r.kind = "raise" THEN line_num + 1 ELSE errLine
       /\ pc' = "assemble"
    /\ UNCHANGED <<line, result, file, delay, idx, ser, events>>

\* for line_num, line in enumerate(f, 1): one iteration, with its try/except
AssembleNext ==
    /\ pc = "assemble"
    /\ line_num < Len(file)
    /\ line_num' = line_num + 1
    /\ LET r == assemble_line(file[line_num + 1]) IN
       /\ instructions' = IF r.kind = "word" THEN Append(instructions, r.val)
                          ELSE instructions
       /\ errLine' = IF r.kind = "raise" THEN line_num + 1 ELSE errLine
       /\ pc' = IF r.kind = "raise" THEN "exit" ELSE "assemble"
    /\ UNCHANGED <<line, result, file, delay, idx, ser, events>>

\* return instructions; __main__ then calls send_to_serial(instructions, port)
AssembleReturn ==
    /\ pc = "assemble"
    /\ line_num = Len(file)
    /\ pc' = "open"
    /\ UNCHANGED <<line, result, file, delay, line_num, instructions, errLine,
                   idx, ser, events>>

\* ser = serial.Serial(port, baud, timeout=1): the port opens, or raises
OpenPort ==
    /\ pc = "open"
    /\ \/ /\ ser' = "open"
          /\ events' = Append(events, Event("open", 0))
          /\ pc' = "stabilize"
       \/ /\ pc' = "raised"
          /\ UNCHANGED <<ser, events>>
    /\ UNCHANGED <<line, result, file, delay, line_num, instructions, errLine, idx>>

\* time.sleep(0.1)  # Let port stabilize
Stabilize ==
    /\ pc = "stabilize"
    /\ events' = Append(events, Event("sleep", StabilizeDelay))
    /\ idx' = 0
    /\ pc' = "loop"
    /\ UNCHANGED <<line, result, file, delay, line_num, instructions, errLine, ser>>

\* a high byte taken without the shift
high_byte_unshifted(instruction) == And255(instruction)

high_byte(instruction) == And255(Shr(instruction, 8))
low_byte(instruction)  == And255(instruction)

\* a write whose failure is swallowed, the loop going on
SerWriteSwallowed(b, next) ==
    \/ /\ events' = Append(events, Event("write", b))
       /\ pc' = next
    \/ /\ events' = Append(events, Event("write_error", b))
       /\ pc' = next

\* ser.write(bytes([b])): the byte is written, or the driver raises
SerWrite(b, next) ==
    \/ /\ events' = Append(events, Event("write", b))
       /\ pc' = next
    \/ /\ events' = Append(events, Event("write_error", b))
       /\ pc' = "raised"

\* for i, instruction in enumerate(instructions): ser.write(bytes([high_byte]))
WriteHigh ==
    /\ pc = "loop"
    /\ idx < Len(instructions)
    /\ SerWrite(high_byte(instructions[idx + 1]), "sleep_high")
    /\ UNCHANGED <<line, result, file, delay, line_num, instructions, errLine, idx, ser>>

\* time.sleep(delay)
SleepAfterHigh ==
    /\ pc = "sleep_high"
    /\ events' = Append(events, Event("sleep", delay))
    /\ pc' = "write_low"
    /\ UNCHANGED <<line, result, file, delay, line_num, instructions, errLine, idx, ser>>

\* ser.write(bytes([low_byte]))
WriteLow ==
    /\ pc = "write_low"
    /\ SerWrite(low_byte(instructions[idx + 1]), "sleep_low")
    /\ UNCHANGED <<line, result, file, delay, line_num, instructions, errLine, idx, ser>>

\* a delay between words only, none after the last word
SleepOnlyBetweenWords ==
    /\ pc = "sleep_low"
    /\ events' = IF idx + 1 < Len(instructions)
                 THEN Append(events, Event("sleep", delay)) ELSE events
    /\ idx' = idx + 1
    /\ pc' = "loop"
    /\ UNCHANGED <<line, result, file, delay, line_num, instructions, errLine, ser>>

\* print(...); time.sleep(delay); next iteration
SleepAfterLow ==
    /\ pc = "sleep_low"
    /\ events' = Append(events, Event("sleep", delay))
    /\ idx' = idx + 1
    /\ pc' = "loop"
    /\ UNCHANGED <<line, result, file, delay, line_num, instructions, errLine, ser>>

\* ser.close(); print("Done!")
ClosePort ==
    /\ pc = "loop"
    /\ idx = Len(instructions)
    /\ ser' = "closed"
    /\ events' = Append(events, Event("close", 0))
    /\ pc' = "done"
    /\ UNCHANGED <<line, result, file, delay, line_num, instructions, errLine, idx>>

Next ==
    \/ AssembleNext
    \/ AssembleReturn
    \/ OpenPort
    \/ Stabilize
    \/ WriteHigh
    \/ SleepAfterHigh
    \/ WriteLow
    \/ SleepAfterLow
    \/ ClosePort

Spec == Init /\ [][Next]_vars

---------------------------------------------------------------------------
(* Properties of the whole program, checked under Spec *)

\* a line that is blank or, after trimming, starts with # or ;
IsBlankOrComment(l) ==
    LET t == strip(l) IN t = <<>> \/ t[1] \in {"#", ";"}

RECURSIVE Encodings(_)
\* the encodings of the lines of f that are neither blank nor comments
Encodings(f) ==
    IF f = <<>> THEN <<>>
    ELSE IF IsBlankOrComment(Head(f)) THEN Encodings(Tail(f))
    ELSE <<assemble_line(Head(f)).val>> \o Encodings(Tail(f))

\* assemble_file has returned its list
Assembled == pc \notin {"assemble", "exit"}

\* C3: when assemble_file completes without error, the Program is exactly
\* the encodings of the lines that are neither blank nor comments, one word
\* per such line, in source order.
C3_ProgramIsSourceOrder ==
    Assembled => instructions = Encodings(file)

C3_Witness ==
    /\ Assembled
    /\ Len(file) = 3
    /\ IsBlankOrComment(file[2])
    /\ instructions = <<274, 33>>

Fails(i) == assemble_line(file[i]).kind = "raise"
HasFailure == \E i \in 1..Len(file) : Fails(i)
FirstFailure ==
    CHOOSE i \in 1..Len(file) : Fails(i) /\ \A j \in 1..(i - 1) : ~Fails(j)

\* C4: if a line fails to encode, assembly stops at the first such line,
\* its 1-based number is the one reported, no later line is encoded, and
\* nothing is ever written to the serial sink: the port is not even opened.
C4_FirstErrorAborts ==
    HasFailure =>
        /\ events = <<>>
        /\ ser = "none"
        /\ pc \in {"assemble", "exit"}
        /\ line_num <= FirstFailure
        /\ (pc = "exit") = (line_num = FirstFailure)
        /\ errLine = (IF pc = "exit" THEN FirstFailure ELSE 0)
        /\ instructions = Encodings(SubSeq(file, 1, IF pc = "exit" THEN line_num - 1 ELSE line_num))

C4_Witness ==
    /\ pc = "exit"
    /\ errLine = 2
    /\ Len(file) = 3
    /\ ~IsBlankOrComment(file[3])
    /\ Len(instructions) = 1

\* the bytes written so far, in the order of the write calls
Written ==
    LET w == SelectSeq(events, LAMBDA e : e.op = "write")
    IN [i \in 1..Len(w) |-> w[i].arg]

RECURSIVE WireBytes(_)
\* high byte (bits 15..8), then low byte (bits 7..0), of each word in order
WireBytes(p) ==
    IF p = <<>> THEN <<>>
    ELSE <<Head(p) \div 256, Head(p) % 256>> \o WireBytes(Tail(p))

IsPrefix(a, b) == Len(a) <= Len(b) /\ a = SubSeq(b, 1, Len(a))

Unsigned16(p) == \A i \in 1..Len(p) : p[i] \in 0..65535

\* C5: for a Program of 16-bit words, send_to_serial writes one byte per
\* write call, always a prefix of [high, low] of each word in Program
\* order, and on success exactly those 2 * len(Program) bytes.
C5_BigEndianBytes ==
    Unsigned16(instructions) =>
        /\ \A i \in 1..Len(events) :
              events[i].op = "write" => events[i].arg \in 0..255
        /\ IsPrefix(Written, WireBytes(instructions))
        /\ pc = "done" =>
              /\ Written = WireBytes(instructions)
              /\ Len(Written) = 2 * Len(instructions)

C5_Witness ==
    /\ pc = "done"
    /\ instructions = <<33, 274, 16911>>
    /\ Written = <<0, 33, 1, 18, 66, 15>>

\* C6: every byte write is followed by one sleep of the configured delay
\* before any further write or the close of the port, the last byte of the
\* last word included.
C6_DelayAfterEveryByte ==
    \A i \in 1..Len(events) :
        (events[i].op = "write" /\ i < Len(events)) =>
            /\ events[i + 1] = Event("sleep", delay)
            /\ i + 1 < Len(events) => events[i + 2].op # "sleep"

C6_Witness ==
    /\ pc = "done"
    /\ delay = 20
    /\ Len(instructions) = 2
    /\ Len(events) = 11

\* C9: a failed byte write propagates at once: nothing is written or
\* waited for after it, and the failed byte is not retried.
C9_WriteErrorPropagates ==
    \A i \in 1..Len(events) :
        events[i].op = "write_error" => (i = Len(events) /\ pc = "raised")

C9_Witness ==
    /\ pc = "raised"
    /\ Len(instructions) = 2
    /\ idx = 0
    /\ events # <<>>
    /\ events[Len(events)].op = "write_error"

=============================================================================
